---- MODULE Spec2Model ----
(***************************************************************************)
(* A model of the two-way messaging core of the discerns SDK:              *)
(*   - TwoWayProtocol, the in-process event registry                       *)
(*     (src/js/chatbot-two-way-listener.ts);                               *)
(*   - connectToDiscernsChatbot, the adapter that carries asks, tells and  *)
(*     ask-responses over window.postMessage (src/unnamed/part_002).       *)
(*                                                                         *)
(* JavaScript runs one task at a time: every action below is one task (a   *)
(* public call, one dispatched message event, one timer callback) together *)
(* with the promise continuations (microtasks) it triggers.                *)
(***************************************************************************)
EXTENDS Integers, Sequences, FiniteSets, TLC

VARIABLES
    \* ---- TwoWayProtocol (the registry, `incomingProtocol` in the adapter)
    listeners,      \* Map: tell event name -> [queue, currentListeners]
    handlers,       \* Map: ask event name -> [id, listener, preventOverwrite]
    id,             \* the registry's identity counter
    calls,          \* listener id -> the payloads that listener was invoked with
    promises,       \* the promises ask() has returned: [event, handler, listener,
                    \* state, value]
    \* ---- connectToDiscernsChatbot (the adapter on the website's side)
    pendingAskResponses,  \* Map: messageId -> the askChatbot call whose
                          \* {resolve, reject} the entry holds
    registeredTools,      \* Map: tool name -> tool
    messageIdCounter,
    contentWindow,        \* chatbotIframe.contentWindow: "iframe" or "null"
    listening,            \* handleMessage is a 'message' listener of window
    asks,                 \* the askChatbot calls made so far: their closure
                          \* (messageId, event), promise and awaiting caller
    timers,               \* the askChatbot calls whose setTimeout is armed
    posted,               \* the envelopes posted to the iframe's window
    ready,                \* awaitConnection() has resolved
    interval,             \* awaitConnection's setInterval is active
    inAsks,               \* the inbound asks dispatched so far: the async
                          \* frame of each (suspended, or how it ended)
    \* ---- a peer that runs the same inbound dispatch (SpecPeer)
    peerHandled,          \* the indices of `posted` the peer has dispatched
    peerPosted,           \* the envelopes the peer has posted back
    siteHandled,          \* the indices of peerPosted delivered to the website
    remoteUpSince,        \* -1 while the remote side is not answering probes,
                          \* else the number of asks sent before it began to
                          \* (SpecHandshake)
    last                  \* the last operation and its outcome

registryVars == <<listeners, handlers, id, calls, promises>>
adapterVars == <<pendingAskResponses, registeredTools, messageIdCounter, contentWindow,
                 listening, asks, timers, posted, ready, interval, inAsks>>
peerVars == <<peerHandled, peerPosted, siteHandled, remoteUpSince>>
vars == <<registryVars, adapterVars, peerVars, last>>

\* ------------------------------------------------------------------ bounds
MaxId == 2          \* identities handed out by one registry
MaxTold == 2        \* payloads held in the queues and the listeners' records
MaxAsks == 3        \* askChatbot calls made by one adapter
MaxInbound == 2     \* inbound asks dispatched by one adapter
MaxPromises == 2    \* promises returned by the registry's ask
MaxSubscribed == 2  \* subscriptions made through the public API

\* ------------------------------------------------------------- small sets
TellEvents == {"website:new-conversation", "website:connection-status"}
Payloads == {"p1", "p2"}

Undefined == "undefined"

EmptyMap == [x \in {} |-> x]
MapRemove(m, k) == [x \in DOMAIN m \ {k} |-> m[x]]
MapSet(m, k, v) == [x \in DOMAIN m \cup {k} |-> IF x = k THEN v ELSE m[x]]

\* =========================================================== TwoWayProtocol

\* The pool declareTellEvent creates for a new event name.
NewPool == [queue |-> <<>>, currentListeners |-> <<>>]

\* declareTellEvent that sets a fresh pool also when the event exists.
declareTellEvent_Resets(ls, eventName) ==
    [ret |-> eventName \in DOMAIN ls, listeners |-> MapSet(ls, eventName, NewPool)]

\* declareTellEvent(eventName): true when the event existed already.
declareTellEvent(ls, eventName) ==
    IF eventName \in DOMAIN ls
    THEN [ret |-> TRUE, listeners |-> ls]
    ELSE [ret |-> FALSE, listeners |-> ls @@ (eventName :> NewPool)]

\* on(eventName, listener).  A listener is a callback of the caller: each of
\* its invocations returns or throws.  throwAt = 0: it throws on no replayed
\* payload; throwAt = j: its j-th invocation of the replay throws, which
\* aborts queue.forEach and leaves on() by that exception, after the push
\* and before `pool.queue = []`.  currentListeners holds the listeners' ids.
on(ls, idc, cs, eventName, throwAt) ==
    IF eventName \notin DOMAIN ls
    THEN [threw |-> TRUE, ret |-> -1, listeners |-> ls, id |-> idc, calls |-> cs]
    ELSE LET pool == ls[eventName]
             pushed == Append(pool.currentListeners, idc)
             threw == throwAt # 0
             replayed == IF threw THEN SubSeq(pool.queue, 1, throwAt) ELSE pool.queue
         IN  [threw |-> threw,
              ret |-> IF threw THEN -1 ELSE idc,
              listeners |-> [ls EXCEPT ![eventName] =
                                [queue |-> IF threw THEN pool.queue ELSE <<>>,
                                 currentListeners |-> pushed]],
              id |-> idc + 1,
              calls |-> cs @@ (idc :> replayed)]

\* off(eventName, id) with the filter turned round: it keeps the listener
\* with that id and removes the others.
off_KeepsMatching(ls, eventName, lid) ==
    IF eventName \notin DOMAIN ls
    THEN [ret |-> FALSE, listeners |-> ls]
    ELSE LET pool == ls[eventName]
             newPool == SelectSeq(pool.currentListeners, LAMBDA l : l = lid)
         IN  [ret |-> Len(pool.currentListeners) # Len(newPool),
              listeners |-> [ls EXCEPT ![eventName] =
                                [queue |-> pool.queue, currentListeners |-> newPool]]]

\* off(eventName, id): whether a listener was removed.
off(ls, eventName, lid) ==
    IF eventName \notin DOMAIN ls
    THEN [ret |-> FALSE, listeners |-> ls]
    ELSE LET pool == ls[eventName]
             newPool == SelectSeq(pool.currentListeners, LAMBDA l : l # lid)
         IN  [ret |-> Len(pool.currentListeners) # Len(newPool),
              listeners |-> [ls EXCEPT ![eventName] =
                                [queue |-> pool.queue, currentListeners |-> newPool]]]

\* tell that declares a missing event on the fly and buffers the payload.
tell_DeclaresMissing(ls, cs, eventName, payload, throwAt) ==
    IF eventName \notin DOMAIN ls
    THEN [threw |-> FALSE,
          listeners |-> ls @@ (eventName :> [queue |-> <<payload>>,
                                             currentListeners |-> <<>>]),
          calls |-> cs]
    ELSE LET pool == ls[eventName]
             n == Len(pool.currentListeners)
         IN  IF n = 0
             THEN [threw |-> FALSE,
                   listeners |-> [ls EXCEPT ![eventName].queue = Append(@, payload)],
                   calls |-> cs]
             ELSE LET m == IF throwAt = 0 THEN n ELSE throwAt
                      invoked == {pool.currentListeners[i] : i \in 1..m}
                  IN  [threw |-> throwAt # 0,
                       listeners |-> ls,
                       calls |-> [l \in DOMAIN cs |->
                                    IF l \in invoked THEN Append(cs[l], payload) ELSE cs[l]]]

\* tell(eventName, payload).  With no listener the payload is queued; else
\* currentListeners.forEach invokes the listeners in order.  throwAt = 0: no
\* listener throws; throwAt = j: the j-th listener throws, which aborts the
\* forEach and leaves tell() by that exception.
tell(ls, cs, eventName, payload, throwAt) ==
    IF eventName \notin DOMAIN ls
    THEN [threw |-> TRUE, listeners |-> ls, calls |-> cs]
    ELSE LET pool == ls[eventName]
             n == Len(pool.currentListeners)
         IN  IF n = 0
             THEN [threw |-> FALSE,
                   listeners |-> [ls EXCEPT ![eventName].queue = Append(@, payload)],
                   calls |-> cs]
             ELSE LET m == IF throwAt = 0 THEN n ELSE throwAt
                      invoked == {pool.currentListeners[i] : i \in 1..m}
                  IN  [threw |-> throwAt # 0,
                       listeners |-> ls,
                       calls |-> [l \in DOMAIN cs |->
                                    IF l \in invoked THEN Append(cs[l], payload) ELSE cs[l]]]

\* registerUniqueAskHandler without the test of preventOverwrite.
registerUniqueAskHandler_Overwrites(hs, idc, eventName, listener, preventOverwrite) ==
    [threw |-> FALSE,
     handlers |-> MapSet(hs, eventName,
                         [id |-> idc, listener |-> listener,
                          preventOverwrite |-> preventOverwrite]),
     id |-> idc + 1,
     ret |-> [id |-> idc, existing |-> eventName \in DOMAIN hs]]

\* registerUniqueAskHandler(eventName, listener, options)
registerUniqueAskHandler(hs, idc, eventName, listener, preventOverwrite) ==
    LET existing == eventName \in DOMAIN hs
    IN  IF existing /\ hs[eventName].preventOverwrite
        THEN [threw |-> TRUE, handlers |-> hs, id |-> idc,
              ret |-> [id |-> -1, existing |-> existing]]
        ELSE [threw |-> FALSE,
              handlers |-> MapSet(hs, eventName,
                                  [id |-> idc, listener |-> listener,
                                   preventOverwrite |-> preventOverwrite]),
              id |-> idc + 1,
              ret |-> [id |-> idc, existing |-> existing]]

\* unregisterAskHandler without the comparison of the ids: it removes
\* whatever handler is installed.
unregisterAskHandler_AnyId(hs, eventName, hid) ==
    IF eventName \notin DOMAIN hs
    THEN [ret |-> FALSE, handlers |-> hs]
    ELSE [ret |-> TRUE, handlers |-> MapRemove(hs, eventName)]

\* unregisterAskHandler(eventName, id): whether the handler was removed.
unregisterAskHandler(hs, eventName, hid) ==
    IF eventName \notin DOMAIN hs \/ hs[eventName].id # hid
    THEN [ret |-> FALSE, handlers |-> hs]
    ELSE [ret |-> TRUE, handlers |-> MapRemove(hs, eventName)]

\* ask(eventName, payload) without the test of the handler: a missing handler
\* answers undefined.
ask_MissingHandlerUndefined(hs, eventName, response) ==
    IF eventName \notin DOMAIN hs
    THEN [state |-> "fulfilled", value |-> "undefined", invoked |-> <<>>]
    ELSE [state |-> response[hs[eventName].listener].state,
          value |-> response[hs[eventName].listener].value,
          invoked |-> <<hs[eventName].id>>]

\* ask(eventName, payload) with one retry: a handler that fails is invoked a
\* second time.
ask_Retry(hs, eventName, response) ==
    IF eventName \notin DOMAIN hs
    THEN [state |-> "threw", value |-> "Error: No handler for " \o eventName,
          invoked |-> <<>>]
    ELSE [state |-> response[hs[eventName].listener].state,
          value |-> response[hs[eventName].listener].value,
          invoked |-> IF response[hs[eventName].listener].state = "rejected"
                      THEN <<hs[eventName].id, hs[eventName].id>>
                      ELSE <<hs[eventName].id>>]

\* ask(eventName, payload): it throws when no handler is registered, and else
\* gives a promise that follows what handler.listener(payload) gives back.
\* `response` maps each listener to that: [state, value] with state
\* "fulfilled", "rejected" (a synchronous throw of the listener included,
\* the promise executor turns it into a rejection) or "pending".  `invoked`
\* lists the handlers (by id) whose listener the call has invoked.
ask(hs, eventName, response) ==
    IF eventName \notin DOMAIN hs
    THEN [state |-> "threw", value |-> "Error: No handler for " \o eventName,
          invoked |-> <<>>]
    ELSE [state |-> response[hs[eventName].listener].state,
          value |-> response[hs[eventName].listener].value,
          invoked |-> <<hs[eventName].id>>]

\* ------------------------------------------- the registry used on its own

RECURSIVE SumLen(_, _)
SumLen(f, S) ==
    IF S = {} THEN 0
    ELSE LET x == CHOOSE y \in S : TRUE IN Len(f[x]) + SumLen(f, S \ {x})

\* The payloads the state holds: queued ones and recorded deliveries.
Told ==
    SumLen([e \in DOMAIN listeners |-> listeners[e].queue], DOMAIN listeners)
        + SumLen(calls, DOMAIN calls)

\* new TwoWayProtocol()
InitRegistry ==
    /\ listeners = EmptyMap
    /\ handlers = EmptyMap
    /\ id = 0
    /\ calls = EmptyMap
    /\ promises = <<>>
    /\ pendingAskResponses = EmptyMap
    /\ registeredTools = EmptyMap
    /\ messageIdCounter = 0
    /\ contentWindow = "null"
    /\ listening = FALSE
    /\ asks = <<>>
    /\ timers = {}
    /\ posted = <<>>
    /\ ready = FALSE
    /\ interval = FALSE
    /\ inAsks = <<>>
    /\ peerHandled = {}
    /\ peerPosted = <<>>
    /\ siteHandled = {}
    /\ remoteUpSince = -1
    /\ last = [op |-> "new"]

DeclareTellEvent ==
    \E e \in TellEvents :
        LET r == declareTellEvent(listeners, e)
        IN  /\ listeners' = r.listeners
            /\ last' = [op |-> "declareTellEvent", event |-> e, ret |-> r.ret]
            /\ UNCHANGED <<handlers, id, calls, promises, adapterVars, peerVars>>

On ==
    \E e \in TellEvents :
        \E throwAt \in 0..(IF e \in DOMAIN listeners THEN Len(listeners[e].queue) ELSE 0) :
            LET r == on(listeners, id, calls, e, throwAt)
            IN  /\ id < MaxId
                /\ listeners' = r.listeners
                /\ id' = r.id
                /\ calls' = r.calls
                /\ last' = [op |-> "on", event |-> e, threw |-> r.threw, ret |-> r.ret]
                /\ UNCHANGED <<handlers, promises, adapterVars, peerVars>>

Off ==
    \E e \in TellEvents, lid \in 0..(MaxId - 1) :
        LET r == off(listeners, e, lid)
        IN  /\ listeners' = r.listeners
            /\ last' = [op |-> "off", event |-> e, id |-> lid, ret |-> r.ret]
            /\ UNCHANGED <<handlers, id, calls, promises, adapterVars, peerVars>>

Tell ==
    \E e \in TellEvents, p \in Payloads :
        \E throwAt \in 0..(IF e \in DOMAIN listeners
                           THEN Len(listeners[e].currentListeners) ELSE 0) :
            LET r == tell(listeners, calls, e, p, throwAt)
            IN  /\ Told < MaxTold
                /\ listeners' = r.listeners
                /\ calls' = r.calls
                /\ last' = [op |-> "tell", event |-> e, payload |-> p, threw |-> r.threw]
                /\ UNCHANGED <<handlers, id, promises, adapterVars, peerVars>>

NextRegistry == DeclareTellEvent \/ On \/ Off \/ Tell

SpecRegistry == InitRegistry /\ [][NextRegistry]_vars

\* ------------------------------------- the ask side of the registry on its own

AskEvents == {"website:ping", "website:tool-call"}

\* The callbacks registered as handlers, and what an invocation of one does:
\* it returns a value, throws, or returns a promise that is still pending.
Listeners == {"f", "g"}
Behaviours == {"returns", "throws", "suspends"}

ResultOf(l) == "result of " \o l
ErrorOf(l) == "Error: failure of " \o l

\* What handler.listener(payload) gives back for each listener.
Response(behaviour) ==
    [l \in Listeners |->
        IF behaviour = "returns" THEN [state |-> "fulfilled", value |-> ResultOf(l)]
        ELSE IF behaviour = "throws" THEN [state |-> "rejected", value |-> ErrorOf(l)]
        ELSE [state |-> "pending", value |-> Undefined]]

\* The record of the invocations kept newest first.
Invoke_NewestFirst(cs, invoked, payload) ==
    [h \in DOMAIN cs \cup {invoked[i] : i \in DOMAIN invoked} |->
        LET before == IF h \in DOMAIN cs THEN cs[h] ELSE <<>>
        IN  IF \E i \in DOMAIN invoked : invoked[i] = h
            THEN <<payload>> \o before ELSE before]

\* The record of the invocations: each invoked handler has received payload.
Invoke(cs, invoked, payload) ==
    [h \in DOMAIN cs \cup {invoked[i] : i \in DOMAIN invoked} |->
        LET before == IF h \in DOMAIN cs THEN cs[h] ELSE <<>>
            times == Cardinality({i \in DOMAIN invoked : invoked[i] = h})
        IN  IF times = 0 THEN before
            ELSE IF times = 1 THEN Append(before, payload)
            ELSE before \o <<payload, payload>>]

RegisterUniqueAskHandler ==
    \E e \in AskEvents, l \in Listeners, preventOverwrite \in BOOLEAN :
        LET r == registerUniqueAskHandler(handlers, id, e, l, preventOverwrite)
        IN  /\ id < MaxId
            /\ handlers' = r.handlers
            /\ id' = r.id
            /\ last' = [op |-> "registerUniqueAskHandler", event |-> e, listener |-> l,
                        threw |-> r.threw, ret |-> r.ret]
            /\ UNCHANGED <<listeners, calls, promises, adapterVars, peerVars>>

UnregisterAskHandler ==
    \E e \in AskEvents, hid \in 0..(MaxId - 1) :
        LET r == unregisterAskHandler(handlers, e, hid)
        IN  /\ handlers' = r.handlers
            /\ last' = [op |-> "unregisterAskHandler", event |-> e, id |-> hid,
                        ret |-> r.ret]
            /\ UNCHANGED <<listeners, id, calls, promises, adapterVars, peerVars>>

\* ask(e, p): it throws, or returns a promise.
Ask ==
    \E e \in AskEvents, p \in {"p1"}, behaviour \in Behaviours :
        LET r == ask(handlers, e, Response(behaviour))
        IN  /\ Len(promises) < MaxPromises
            /\ calls' = Invoke(calls, r.invoked, p)
            /\ promises' = IF r.state = "threw" THEN promises
                           ELSE Append(promises, [event |-> e, handler |-> r.invoked[1],
                                                  listener |-> handlers[e].listener,
                                                  state |-> r.state, value |-> r.value])
            /\ last' = [op |-> "ask", event |-> e, payload |-> p, behaviour |-> behaviour,
                        threw |-> r.state = "threw",
                        error |-> IF r.state = "threw" THEN r.value ELSE Undefined]
            /\ UNCHANGED <<listeners, handlers, id, adapterVars, peerVars>>

\* The promise a handler has returned settles; response.then(resolve)
\* .catch(reject) settles the promise of ask() the same way.
HandlerSettles ==
    \E i \in DOMAIN promises, settle \in {"fulfilled", "rejected"} :
        /\ promises[i].state = "pending"
        /\ promises' = [promises EXCEPT ![i] =
                           [@ EXCEPT !.state = settle,
                                     !.value = IF settle = "fulfilled"
                                               THEN ResultOf(promises[i].listener)
                                               ELSE ErrorOf(promises[i].listener)]]
        /\ last' = [op |-> "handlerSettles", promise |-> i]
        /\ UNCHANGED <<listeners, handlers, id, calls, adapterVars, peerVars>>

NextHandlers ==
    \/ RegisterUniqueAskHandler
    \/ UnregisterAskHandler
    \/ Ask
    \/ HandlerSettles

SpecHandlers == InitRegistry /\ [][NextHandlers]_vars

\* ================================================= connectToDiscernsChatbot

PROTOCOL_PREFIX == "discerns-protocol"

AskTimeout == 30000     \* options.askTimeout, by default
PingTimeout == 100      \* ping()'s timeout
PingInterval == 500     \* awaitConnection's polling interval

\* Response values.  Strings stand for themselves; the other two stand for
\* the objects { success: true } and { success: false }.
ObjectValues == {"{success:true}", "{success:false}"}
RespValues == {"pong"} \cup ObjectValues

\* String(value)
JsString(v) == IF v \in ObjectValues THEN "[object Object]" ELSE v

\* result.success, as a condition
Success(v) == v = "{success:true}"

\* The tools a website registers; impl stands for the description, the
\* schema and the execute callback of the tool object.
Tools == {[name |-> "get_user", impl |-> "v1"]}

\* `website-ask-${n}`
MessageId(n) == "website-ask-" \o ToString(n)

\* `Ask "${event}" timed out`
TimeoutMessage(event) == "Ask \"" \o event \o "\" timed out"

\* The wire envelope, as sendMessage posts it.
Envelope(type, event, payload, messageId) ==
    [type |-> type, event |-> event, payload |-> payload, messageId |-> messageId,
     prefix |-> PROTOCOL_PREFIX]

\* sendMessage(message): the log of posted envelopes after the call.
sendMessage(log, window, message) ==
    IF window = "null" THEN log ELSE Append(log, message)

\* The callers that await an askChatbot promise.
PingFrame(first) == [op |-> "ping", first |-> first, name |-> Undefined, impl |-> Undefined]
RegisterFrame(t) == [op |-> "registerTool", first |-> FALSE, name |-> t.name, impl |-> t.impl]
UnregisterFrame(n) == [op |-> "unregisterTool", first |-> FALSE, name |-> n, impl |-> Undefined]

\* askChatbot without `++`: the id is built from the counter as it stands.
AskChatbot_NoIncrement(event, payload, timeout, frame) ==
    LET counter == messageIdCounter
        messageId == MessageId(counter)
        k == Len(asks) + 1
    IN  /\ messageIdCounter' = counter
        /\ pendingAskResponses' = MapSet(pendingAskResponses, messageId, k)
        /\ posted' = sendMessage(posted, contentWindow,
                                 Envelope("ask", event, payload, messageId))
        /\ timers' = timers \cup {k}
        /\ asks' = Append(asks, [messageId |-> messageId, event |-> event,
                                 timeout |-> timeout, state |-> "pending",
                                 value |-> Undefined, settles |-> 0, frame |-> frame])

\* askChatbot(event, payload, timeout), awaited by `frame`.
AskChatbot(event, payload, timeout, frame) ==
    LET counter == messageIdCounter + 1
        messageId == MessageId(counter)
        k == Len(asks) + 1
    IN  /\ messageIdCounter' = counter
        /\ pendingAskResponses' = MapSet(pendingAskResponses, messageId, k)
        /\ posted' = sendMessage(posted, contentWindow,
                                 Envelope("ask", event, payload, messageId))
        /\ timers' = timers \cup {k}
        /\ asks' = Append(asks, [messageId |-> messageId, event |-> event,
                                 timeout |-> timeout, state |-> "pending",
                                 value |-> Undefined, settles |-> 0, frame |-> frame])

\* resolve(value) or reject(new Error(value)) of an askChatbot promise: the
\* first call settles it, a later call is counted and changes nothing else.
Settle(a, state, value) ==
    IF a.state = "pending"
    THEN [a EXCEPT !.state = state, !.value = value, !.settles = @ + 1]
    ELSE [a EXCEPT !.settles = @ + 1]

\* ping() that takes any answer for a success.
PingResult_AnyResolved(state, value) == state = "resolved"

\* ping(): response === 'pong', false when the ask is rejected.
PingResult(state, value) == state = "resolved" /\ value = "pong"

\* The continuations without registeredTools.delete in registerTool.
ToolsAfter_KeepOnFailure(tools, a, state, value) ==
    IF a.state # "pending" THEN tools
    ELSE IF a.frame.op = "unregisterTool" /\ state = "resolved" /\ Success(value)
         THEN MapRemove(tools, a.frame.name)
    ELSE tools

\* The continuation of the caller awaiting ask `a`, run when its promise
\* settles with (state, value): what it leaves in registeredTools, ...
ToolsAfter(tools, a, state, value) ==
    IF a.state # "pending" THEN tools
    ELSE IF a.frame.op = "registerTool" /\ state = "resolved" /\ ~Success(value)
         THEN MapRemove(tools, a.frame.name)
    ELSE IF a.frame.op = "unregisterTool" /\ state = "resolved" /\ Success(value)
         THEN MapRemove(tools, a.frame.name)
    ELSE tools

\* awaitConnection that resolves when a ping has settled, without the test
\* of its result.
ReadyAfter_AnyPing(rdy, a, state, value) ==
    IF a.state = "pending" /\ a.frame.op = "ping" THEN TRUE ELSE rdy

\* ... in the readiness signal of awaitConnection, ...
ReadyAfter(rdy, a, state, value) ==
    IF a.state = "pending" /\ a.frame.op = "ping" /\ PingResult(state, value)
    THEN TRUE ELSE rdy

\* awaitConnection without clearInterval: the interval, once set, stays.
IntervalAfter_NeverCleared(iv, a, state, value) ==
    IF a.state # "pending" \/ a.frame.op # "ping" THEN iv
    ELSE IF a.frame.first THEN (IF PingResult(state, value) THEN iv ELSE TRUE)
    ELSE iv

\* ... and in its interval: set when the first ping fails, cleared when a
\* ping of the interval succeeds.
IntervalAfter(iv, a, state, value) ==
    IF a.state # "pending" \/ a.frame.op # "ping" THEN iv
    ELSE IF a.frame.first THEN (IF PingResult(state, value) THEN iv ELSE TRUE)
    ELSE (IF PingResult(state, value) THEN FALSE ELSE iv)

\* The ask-response branch without pendingAskResponses.delete.
HandleAskResponse_KeepEntry(message) ==
    IF message.messageId \in DOMAIN pendingAskResponses
    THEN LET k == pendingAskResponses[message.messageId]
             response == message.payload
             state == IF response.ok THEN "resolved" ELSE "rejected"
             value == IF response.ok THEN response.value ELSE JsString(response.value)
         IN  /\ pendingAskResponses' = pendingAskResponses
             /\ asks' = [asks EXCEPT ![k] = Settle(@, state, value)]
             /\ registeredTools' = ToolsAfter(registeredTools, asks[k], state, value)
             /\ ready' = ReadyAfter(ready, asks[k], state, value)
             /\ interval' = IntervalAfter(interval, asks[k], state, value)
    ELSE UNCHANGED <<pendingAskResponses, asks, registeredTools, ready, interval>>

\* The ask-response branch without the test of response.ok: it resolves.
HandleAskResponse_IgnoreFlag(message) ==
    IF message.messageId \in DOMAIN pendingAskResponses
    THEN LET k == pendingAskResponses[message.messageId]
             response == message.payload
             state == "resolved"
             value == response.value
         IN  /\ pendingAskResponses' = MapRemove(pendingAskResponses, message.messageId)
             /\ asks' = [asks EXCEPT ![k] = Settle(@, state, value)]
             /\ registeredTools' = ToolsAfter(registeredTools, asks[k], state, value)
             /\ ready' = ReadyAfter(ready, asks[k], state, value)
             /\ interval' = IntervalAfter(interval, asks[k], state, value)
    ELSE UNCHANGED <<pendingAskResponses, asks, registeredTools, ready, interval>>

\* The ask-response branch of handleMessage.
HandleAskResponse(message) ==
    IF message.messageId \in DOMAIN pendingAskResponses
    THEN LET k == pendingAskResponses[message.messageId]
             response == message.payload
             state == IF response.ok THEN "resolved" ELSE "rejected"
             value == IF response.ok THEN response.value ELSE JsString(response.value)
         IN  /\ pendingAskResponses' = MapRemove(pendingAskResponses, message.messageId)
             /\ asks' = [asks EXCEPT ![k] = Settle(@, state, value)]
             /\ registeredTools' = ToolsAfter(registeredTools, asks[k], state, value)
             /\ ready' = ReadyAfter(ready, asks[k], state, value)
             /\ interval' = IntervalAfter(interval, asks[k], state, value)
    ELSE UNCHANGED <<pendingAskResponses, asks, registeredTools, ready, interval>>

\* The object { ok, value } a tool call answers with, as its text.
ToolReply(ok, value) ==
    "{ok:" \o (IF ok THEN "true" ELSE "false") \o ",value:" \o value \o "}"

\* What tool.execute gives back, and String(error) of what it or
\* tool.schema.parse throws.
ToolResult == "result"
ExecuteError == "Error: execute failed"
ParseError == "ZodError: invalid args"

\* The listener of 'website:tool-call' with failures thrown instead of
\* returned: an unknown tool and a failure of parse or execute reject the
\* promise of the listener.
ToolCallListener_Throws(tools, payload, choice) ==
    IF payload.name \notin DOMAIN tools
    THEN [state |-> "rejected",
          value |-> "Error: Tool \"" \o payload.name \o "\" not found"]
    ELSE IF payload.args = "invalid"
    THEN [state |-> "rejected", value |-> ParseError]
    ELSE IF choice = "throws"
    THEN [state |-> "rejected", value |-> ExecuteError]
    ELSE IF choice = "returns"
    THEN [state |-> "fulfilled", value |-> ToolReply(TRUE, ToolResult)]
    ELSE [state |-> "pending", value |-> Undefined]

\* The listener of 'website:tool-call', up to its first suspension.
\* `choice` is what tool.execute does: "returns" (a value or a promise that
\* is already fulfilled), "throws" (or a promise already rejected) or
\* "suspends" (a promise still pending).
ToolCallListener(tools, payload, choice) ==
    IF payload.name \notin DOMAIN tools
    THEN [state |-> "fulfilled",
          value |-> ToolReply(FALSE, "Tool \"" \o payload.name \o "\" not found")]
    ELSE IF payload.args = "invalid"
    THEN [state |-> "fulfilled", value |-> ToolReply(FALSE, ParseError)]
    ELSE IF choice = "throws"
    THEN [state |-> "fulfilled", value |-> ToolReply(FALSE, ExecuteError)]
    ELSE IF choice = "returns"
    THEN [state |-> "fulfilled", value |-> ToolReply(TRUE, ToolResult)]
    ELSE [state |-> "pending", value |-> Undefined]

\* The same listener once the promise of tool.execute has settled.
ToolCallResumed(settle) ==
    IF settle = "resolves" THEN ToolReply(TRUE, ToolResult)
    ELSE ToolReply(FALSE, ExecuteError)

\* What each listener registered by connectToDiscernsChatbot gives back.
ListenerResponse(tools, message, choice) ==
    [l \in {"ping", "tool-call"} |->
        IF l = "ping" THEN [state |-> "fulfilled", value |-> "pong"]
        ELSE IF message.event = "website:tool-call"
             THEN ToolCallListener(tools, message.payload, choice)
             ELSE [state |-> "fulfilled", value |-> Undefined]]

\* The async function of the ask branch without its catch: a failure of
\* incomingProtocol.ask ends the function and nothing is sent.
AskOutcome_NoCatch(hs, tools, message, choice) ==
    LET r == ask(hs, message.event, ListenerResponse(tools, message, choice))
    IN  IF r.state = "pending" THEN [state |-> "suspended", send |-> FALSE, payload |-> Undefined]
        ELSE IF r.state = "fulfilled"
        THEN [state |-> "done", send |-> TRUE, payload |-> [ok |-> TRUE, value |-> r.value]]
        ELSE [state |-> "done", send |-> FALSE, payload |-> Undefined]

\* The async function of the ask branch of handleMessage, up to its first
\* suspension: `await incomingProtocol.ask(...)` and the payload of the
\* ask-response it sends, from the try or from the catch.
AskOutcome(hs, tools, message, choice) ==
    LET r == ask(hs, message.event, ListenerResponse(tools, message, choice))
    IN  IF r.state = "pending" THEN [state |-> "suspended", send |-> FALSE, payload |-> Undefined]
        ELSE IF r.state = "fulfilled"
        THEN [state |-> "done", send |-> TRUE, payload |-> [ok |-> TRUE, value |-> r.value]]
        ELSE [state |-> "done", send |-> TRUE, payload |-> [ok |-> FALSE, value |-> r.value]]

\* The state of an async frame of the ask branch: suspended, or ended with
\* its envelope handed to postMessage ("posted") or not ("unposted").
FrameState(outcome, before, after) ==
    IF outcome.state = "suspended" THEN "suspended"
    ELSE IF Len(after) > Len(before) THEN "posted" ELSE "unposted"

\* The ask branch of handleMessage.  incomingProtocol.ask invokes the
\* responder inside the dispatch, before the async function suspends: the
\* record of the responder's invocations gets the payload in this step.
HandleAsk(message, choice) ==
    LET outcome == AskOutcome(handlers, registeredTools, message, choice)
        invoked == ask(handlers, message.event,
                       ListenerResponse(registeredTools, message, choice)).invoked
        after == IF outcome.send
                 THEN sendMessage(posted, contentWindow,
                                  Envelope("ask-response", message.event, outcome.payload,
                                           message.messageId))
                 ELSE posted
    IN  /\ posted' = after
        /\ calls' = Invoke(calls, invoked, message.payload)
        /\ inAsks' = Append(inAsks, [event |-> message.event,
                                     messageId |-> message.messageId,
                                     state |-> FrameState(outcome, posted, after)])

\* The tell branch handing the name of the event to the subscribers in
\* place of the payload.
HandleTell_EventAsPayload(message, throwAt) ==
    LET r == tell(listeners, calls, message.event, message.event, throwAt)
    IN  /\ listeners' = r.listeners
        /\ calls' = r.calls

\* The tell branch of handleMessage: incomingProtocol.tell in a try/catch.
HandleTell(message, throwAt) ==
    LET r == tell(listeners, calls, message.event, message.payload, throwAt)
    IN  /\ listeners' = r.listeners
        /\ calls' = r.calls

\* Whether handleMessage lets the event through its source and format checks.
Accepted(event) == event.source = contentWindow /\ event.data.prefix = PROTOCOL_PREFIX

\* What `last` keeps of a dispatched message event: the whole event when a
\* branch of handleMessage acted on it, and only its kind and correlation id
\* when it was ignored (filtered out) or dropped (a response that matches no
\* pending entry).
Observed(event) ==
    IF ~Accepted(event)
    THEN [op |-> "handleMessage", outcome |-> "ignored",
          type |-> event.data.type, messageId |-> event.data.messageId]
    ELSE IF event.data.type = "ask-response"
            /\ event.data.messageId \notin DOMAIN pendingAskResponses
    THEN [op |-> "handleMessage", outcome |-> "dropped",
          type |-> event.data.type, messageId |-> event.data.messageId]
    ELSE [op |-> "handleMessage", outcome |-> "dispatched", event |-> event]

\* handleMessage(event), a 'message' event of the website's window.
\* `choice` is what the callbacks invoked by this dispatch do.
HandleMessage(event, choice) ==
    /\ listening
    /\ last' = Observed(event)
    /\ UNCHANGED <<handlers, id, promises, messageIdCounter, contentWindow, listening,
                   timers>>
    /\ IF ~Accepted(event)
       THEN UNCHANGED <<listeners, calls, pendingAskResponses, asks, registeredTools,
                        ready, interval, posted, inAsks>>
       ELSE IF event.data.type = "tell"
       THEN /\ HandleTell(event.data, choice)
            /\ UNCHANGED <<pendingAskResponses, asks, registeredTools, ready, interval,
                           posted, inAsks>>
       ELSE IF event.data.type = "ask"
       THEN /\ HandleAsk(event.data, choice)
            /\ UNCHANGED <<listeners, pendingAskResponses, asks, registeredTools,
                           ready, interval>>
       ELSE IF event.data.type = "ask-response"
       THEN /\ HandleAskResponse(event.data)
            /\ UNCHANGED <<listeners, calls, posted, inAsks>>
       ELSE UNCHANGED <<listeners, calls, pendingAskResponses, asks, registeredTools,
                        ready, interval, posted, inAsks>>

\* The timeout callback without pendingAskResponses.delete.
TimerFire_KeepEntry ==
    \E k \in timers :
        LET a == asks[k]
            state == "rejected"
            value == TimeoutMessage(a.event)
        IN  /\ timers' = timers \ {k}
            /\ IF a.messageId \in DOMAIN pendingAskResponses
               THEN /\ pendingAskResponses' = pendingAskResponses
                    /\ asks' = [asks EXCEPT ![k] = Settle(@, state, value)]
                    /\ registeredTools' = ToolsAfter(registeredTools, a, state, value)
                    /\ ready' = ReadyAfter(ready, a, state, value)
                    /\ interval' = IntervalAfter(interval, a, state, value)
               ELSE UNCHANGED <<pendingAskResponses, asks, registeredTools, ready, interval>>
            /\ last' = [op |-> "timeout", ask |-> k]
            /\ UNCHANGED <<registryVars, messageIdCounter, contentWindow, listening, posted,
                           inAsks, peerVars>>

\* The callback askChatbot passes to setTimeout, for the k-th call.
TimerFire ==
    \E k \in timers :
        LET a == asks[k]
            state == "rejected"
            value == TimeoutMessage(a.event)
        IN  /\ timers' = timers \ {k}
            /\ IF a.messageId \in DOMAIN pendingAskResponses
               THEN /\ pendingAskResponses' = MapRemove(pendingAskResponses, a.messageId)
                    /\ asks' = [asks EXCEPT ![k] = Settle(@, state, value)]
                    /\ registeredTools' = ToolsAfter(registeredTools, a, state, value)
                    /\ ready' = ReadyAfter(ready, a, state, value)
                    /\ interval' = IntervalAfter(interval, a, state, value)
               ELSE UNCHANGED <<pendingAskResponses, asks, registeredTools, ready, interval>>
            /\ last' = [op |-> "timeout", ask |-> k]
            /\ UNCHANGED <<registryVars, messageIdCounter, contentWindow, listening, posted,
                           inAsks, peerVars>>

\* One tick of awaitConnection's interval: ping().  The timer of a ping runs
\* out PingTimeout after the ping was sent and the next tick comes
\* PingInterval after the one before (or after the first ping failed), so a
\* tick finds no ping timer armed when PingTimeout < PingInterval.
IntervalTick ==
    /\ interval
    /\ Len(asks) < MaxAsks
    /\ \A k \in timers : ~(asks[k].timeout < PingInterval)
    /\ AskChatbot("chatbot:ping", Undefined, PingTimeout, PingFrame(FALSE))
    /\ last' = [op |-> "ping"]
    /\ UNCHANGED <<registryVars, registeredTools, contentWindow, listening, ready, interval,
                   inAsks, peerVars>>

\* registerTool(tool), up to its await.
RegisterTool ==
    \E t \in Tools :
        /\ ready
        /\ Len(asks) < MaxAsks
        /\ registeredTools' = MapSet(registeredTools, t.name, t)
        /\ AskChatbot("chatbot:register-tool", t, AskTimeout, RegisterFrame(t))
        /\ last' = [op |-> "registerTool", tool |-> t]
        /\ UNCHANGED <<registryVars, contentWindow, listening, ready, interval, inAsks,
                       peerVars>>

\* unregisterTool(name), up to its await.
UnregisterTool ==
    \E t \in Tools :
        /\ ready
        /\ Len(asks) < MaxAsks
        /\ AskChatbot("chatbot:unregister-tool", [name |-> t.name], AskTimeout,
                      UnregisterFrame(t.name))
        /\ last' = [op |-> "unregisterTool", name |-> t.name]
        /\ UNCHANGED <<registryVars, registeredTools, contentWindow, listening, ready,
                       interval, inAsks, peerVars>>

\* dispose()
Dispose ==
    /\ ready
    /\ listening' = FALSE
    /\ pendingAskResponses' = EmptyMap
    /\ registeredTools' = EmptyMap
    /\ last' = [op |-> "dispose"]
    /\ UNCHANGED <<registryVars, messageIdCounter, contentWindow, asks, timers, posted,
                   ready, interval, inAsks, peerVars>>

\* The iframe is taken out of the document (iframe.remove() in the dispose of
\* createDiscernsEmbed): chatbotIframe.contentWindow is null from then on.
IframeRemoved ==
    /\ contentWindow = "iframe"
    /\ contentWindow' = "null"
    /\ last' = [op |-> "iframe.remove"]
    /\ UNCHANGED <<registryVars, pendingAskResponses, registeredTools, messageIdCounter,
                   listening, asks, timers, posted, ready, interval, inAsks, peerVars>>

\* The ask-response envelopes the remote side may post: any correlation id
\* (matching, repeated, late or spurious), either success flag, any value.
RecvResponse ==
    \E n \in 1..MaxAsks, ok \in BOOLEAN, v \in RespValues :
        /\ HandleMessage([source |-> "iframe",
                          data |-> Envelope("ask-response", "chatbot:ping",
                                            [ok |-> ok, value |-> v], MessageId(n))], 0)
        /\ UNCHANGED peerVars

\* connectToDiscernsChatbot(chatbotIframe) up to `await awaitConnection()`:
\* the registry is set up, handleMessage listens, and awaitConnection has
\* sent its first ping.
InitialRegistry ==
    LET d1 == declareTellEvent(EmptyMap, "website:new-conversation").listeners
        d2 == declareTellEvent(d1, "website:connection-status").listeners
        h1 == registerUniqueAskHandler(EmptyMap, 0, "website:ping", "ping", FALSE)
        h2 == registerUniqueAskHandler(h1.handlers, h1.id, "website:tool-call",
                                       "tool-call", FALSE)
    IN  [listeners |-> d2, handlers |-> h2.handlers, id |-> h2.id]

Init ==
    /\ listeners = InitialRegistry.listeners
    /\ handlers = InitialRegistry.handlers
    /\ id = InitialRegistry.id
    /\ calls = EmptyMap
    /\ promises = <<>>
    /\ registeredTools = EmptyMap
    /\ contentWindow = "iframe"
    /\ listening = TRUE
    /\ ready = FALSE
    /\ interval = FALSE
    /\ messageIdCounter = 1
    /\ pendingAskResponses = MapSet(EmptyMap, MessageId(1), 1)
    /\ posted = sendMessage(<<>>, "iframe",
                            Envelope("ask", "chatbot:ping", Undefined, MessageId(1)))
    /\ timers = {1}
    /\ asks = <<[messageId |-> MessageId(1), event |-> "chatbot:ping",
                 timeout |-> PingTimeout, state |-> "pending", value |-> Undefined,
                 settles |-> 0, frame |-> PingFrame(TRUE)]>>
    /\ inAsks = <<>>
    /\ peerHandled = {}
    /\ peerPosted = <<>>
    /\ siteHandled = {}
    /\ remoteUpSince = -1
    /\ last = [op |-> "connectToDiscernsChatbot"]

Next ==
    \/ IntervalTick
    \/ RegisterTool
    \/ UnregisterTool
    \/ RecvResponse
    \/ TimerFire
    \/ Dispose
    \/ IframeRemoved

Spec == Init /\ [][Next]_vars

\* ----------------------------------------------- asks sent by the chatbot
\* Message payloads follow the schemas of the protocol: the payload of an
\* ask-response is { ok, value } and the payload of 'website:tool-call' is
\* { name, args }.

\* The asks the chatbot may send: a ping, a call of a tool (registered or
\* not, with arguments its schema accepts or not) and an event no handler
\* is registered for.
InboundIds == {"chatbot-ask-1", "chatbot-ask-2"}
InboundAsks ==
    {[event |-> "website:ping", payload |-> [name |-> Undefined, args |-> Undefined]],
     [event |-> "website:unknown", payload |-> [name |-> Undefined, args |-> Undefined]]}
    \cup {[event |-> "website:tool-call", payload |-> [name |-> n, args |-> a]] :
             n \in {"get_user", "no_tool"}, a \in {"valid", "invalid"}}

\* A 'message' event carrying an ask.  Its source is the iframe's window, or
\* null (an event whose source window is gone, or one built by a script).
RecvAsk ==
    \E m \in InboundAsks, mid \in InboundIds, src \in {"iframe", "null"},
       choice \in {"returns", "throws", "suspends"} :
        /\ Len(inAsks) < MaxInbound
        /\ HandleMessage([source |-> src,
                          data |-> Envelope("ask", m.event, m.payload, mid)], choice)
        /\ UNCHANGED peerVars

\* The resumed async function with the message kept in a variable shared
\* by the dispatches in place of the closure of each: the response echoes
\* the correlation id of the ask dispatched last.
HandlerComplete_EchoesLatest ==
    \E i \in DOMAIN inAsks, settle \in {"resolves", "rejects"} :
        LET f == inAsks[i]
            after == sendMessage(posted, contentWindow,
                                 Envelope("ask-response", f.event,
                                          [ok |-> TRUE, value |-> ToolCallResumed(settle)],
                                          inAsks[Len(inAsks)].messageId))
        IN  /\ f.state = "suspended"
            /\ posted' = after
            /\ inAsks' = [inAsks EXCEPT ![i].state =
                             FrameState([state |-> "done"], posted, after)]
            /\ last' = [op |-> "handlerComplete", frame |-> i, settle |-> settle]
            /\ UNCHANGED <<registryVars, pendingAskResponses, registeredTools,
                           messageIdCounter, contentWindow, listening, asks, timers, ready,
                           interval, peerVars>>

\* The promise of tool.execute settles and the suspended async functions run
\* to their end: the listener returns its { ok, value }, ask's promise is
\* fulfilled with it and the ask branch sends the response.
HandlerComplete ==
    \E i \in DOMAIN inAsks, settle \in {"resolves", "rejects"} :
        LET f == inAsks[i]
            after == sendMessage(posted, contentWindow,
                                 Envelope("ask-response", f.event,
                                          [ok |-> TRUE, value |-> ToolCallResumed(settle)],
                                          f.messageId))
        IN  /\ f.state = "suspended"
            /\ posted' = after
            /\ inAsks' = [inAsks EXCEPT ![i].state =
                             FrameState([state |-> "done"], posted, after)]
            /\ last' = [op |-> "handlerComplete", frame |-> i, settle |-> settle]
            /\ UNCHANGED <<registryVars, pendingAskResponses, registeredTools,
                           messageIdCounter, contentWindow, listening, asks, timers, ready,
                           interval, peerVars>>

\* The adapter once connectToDiscernsChatbot has returned and the website
\* has registered its tool: the first ping was answered 'pong', the
\* registration was answered { success: true }, both timers have run out.
Connected ==
    /\ listeners = InitialRegistry.listeners
    /\ handlers = InitialRegistry.handlers
    /\ id = InitialRegistry.id
    /\ calls = EmptyMap
    /\ promises = <<>>
    /\ registeredTools = [n \in {"get_user"} |-> [name |-> "get_user", impl |-> "v1"]]
    /\ contentWindow = "iframe"
    /\ listening = TRUE
    /\ ready = TRUE
    /\ interval = FALSE
    /\ messageIdCounter = 2
    /\ pendingAskResponses = EmptyMap
    /\ posted = <<Envelope("ask", "chatbot:ping", Undefined, MessageId(1)),
                  Envelope("ask", "chatbot:register-tool",
                           [name |-> "get_user", impl |-> "v1"], MessageId(2))>>
    /\ timers = {}
    /\ asks = <<[messageId |-> MessageId(1), event |-> "chatbot:ping",
                 timeout |-> PingTimeout, state |-> "resolved", value |-> "pong",
                 settles |-> 1, frame |-> PingFrame(TRUE)],
                [messageId |-> MessageId(2), event |-> "chatbot:register-tool",
                 timeout |-> AskTimeout, state |-> "resolved",
                 value |-> "{success:true}", settles |-> 1,
                 frame |-> RegisterFrame([name |-> "get_user", impl |-> "v1"])]>>
    /\ inAsks = <<>>
    /\ peerHandled = {}
    /\ peerPosted = <<>>
    /\ siteHandled = {}
    /\ remoteUpSince = -1
    /\ last = [op |-> "timeout", ask |-> 2]

NextInbound ==
    \/ RecvAsk
    \/ HandlerComplete
    \/ IframeRemoved
    \/ Dispose

SpecInbound == Connected /\ [][NextInbound]_vars

\* ------------------------------------ a peer with the same inbound dispatch
\* The website's adapter A and a peer B that runs the ask branch of
\* handleMessage over the handlers connectToDiscernsChatbot registers: B has
\* a responder for 'website:ping' and 'website:tool-call' and none for the
\* 'chatbot:ping' A sends.

\* B handles an ask envelope A has posted and posts its response back.
PeerDispatch ==
    \E j \in DOMAIN posted :
        LET message == posted[j]
            outcome == AskOutcome(InitialRegistry.handlers, EmptyMap, message, "returns")
        IN  /\ j \notin peerHandled
            /\ message.type = "ask"
            /\ peerHandled' = peerHandled \cup {j}
            /\ peerPosted' = IF outcome.send
                             THEN sendMessage(peerPosted, "window",
                                              Envelope("ask-response", message.event,
                                                       outcome.payload, message.messageId))
                             ELSE peerPosted
            /\ last' = [op |-> "peerDispatch", envelope |-> j]
            /\ UNCHANGED <<registryVars, adapterVars, siteHandled, remoteUpSince>>

\* An envelope B has posted reaches A's handleMessage.
DeliverToSite ==
    \E j \in DOMAIN peerPosted :
        /\ j \notin siteHandled
        /\ siteHandled' = siteHandled \cup {j}
        /\ HandleMessage([source |-> "iframe", data |-> peerPosted[j]], 0)
        /\ UNCHANGED <<peerHandled, peerPosted, remoteUpSince>>

NextPeer ==
    \/ PeerDispatch
    \/ DeliverToSite
    \/ TimerFire
    \/ IntervalTick

SpecPeer == Init /\ [][NextPeer]_vars

\* ------------------------------------------- the handshake and the public API
\* connectToDiscernsChatbot returns the public API after `await
\* awaitConnection()`: the operations below can be called once `ready`.

\* tellChatbot(event, payload), called by addToContext, removeFromContext
\* and setAvatarContext.
OutgoingTells == {"chatbot:add-necessary-context", "chatbot:remove-necessary-context",
                  "chatbot:set-avatar-context"}

TellChatbot ==
    \E e \in OutgoingTells :
        /\ ready
        /\ Len(posted) < MaxAsks
        /\ posted' = sendMessage(posted, contentWindow, Envelope("tell", e, "context", Undefined))
        /\ last' = [op |-> "tellChatbot", event |-> e]
        /\ UNCHANGED <<registryVars, pendingAskResponses, registeredTools, messageIdCounter,
                       contentWindow, listening, asks, timers, ready, interval, inAsks,
                       peerVars>>

\* onNewConversation(callback) and onConnectionStatus(callback):
\* incomingProtocol.on with a listener that unpacks the payload and calls
\* the callback; payloads buffered for the event are replayed to it, and
\* throwAt is the replayed payload on which it throws (0: on none).
Subscribe ==
    \E e \in TellEvents :
        \E throwAt \in 0..Len(listeners[e].queue) :
            LET r == on(listeners, id, calls, e, throwAt)
            IN  /\ ready
                /\ id - InitialRegistry.id < MaxSubscribed
                /\ listeners' = r.listeners
                /\ id' = r.id
                /\ calls' = r.calls
                /\ last' = [op |-> "subscribe", event |-> e, threw |-> r.threw,
                            ret |-> r.ret]
                /\ UNCHANGED <<handlers, promises, adapterVars, peerVars>>

\* The function onNewConversation and onConnectionStatus return:
\* incomingProtocol.off(event, id) with the id of the subscription.
Unsubscribe ==
    \E e \in TellEvents, lid \in InitialRegistry.id..(id - 1) :
        LET r == off(listeners, e, lid)
        IN  /\ lid \in {listeners[e].currentListeners[i] :
                            i \in DOMAIN listeners[e].currentListeners}
            /\ listeners' = r.listeners
            /\ last' = [op |-> "unsubscribe", event |-> e, id |-> lid, ret |-> r.ret]
            /\ UNCHANGED <<handlers, id, calls, promises, adapterVars, peerVars>>

\* The probes the remote side answers from the moment it is up: those sent
\* after that moment and still pending.
Answerable(k) ==
    /\ remoteUpSince >= 0
    /\ k > remoteUpSince
    /\ asks[k].event = "chatbot:ping"
    /\ asks[k].messageId \in DOMAIN pendingAskResponses

\* The remote side begins to answer the probes it receives.
RemoteComesUp ==
    /\ remoteUpSince = -1
    /\ ~ready
    /\ Len(asks) < MaxAsks
    /\ remoteUpSince' = Len(asks)
    /\ last' = [op |-> "remoteComesUp"]
    /\ UNCHANGED <<registryVars, adapterVars, peerHandled, peerPosted, siteHandled>>

\* Before that, and while the handshake lasts, whatever answers: to any
\* ask, with any flag and value.
RemoteAnswers ==
    \E n \in 1..MaxAsks, ok \in BOOLEAN, v \in RespValues :
        /\ remoteUpSince = -1
        /\ ~ready
        /\ HandleMessage([source |-> "iframe",
                          data |-> Envelope("ask-response", "chatbot:ping",
                                            [ok |-> ok, value |-> v], MessageId(n))], 0)
        /\ UNCHANGED peerVars

\* The remote side, up, answers a probe with 'pong' before its timer fires.
RemotePongs ==
    \E k \in DOMAIN asks :
        /\ Answerable(k)
        /\ HandleMessage([source |-> "iframe",
                          data |-> Envelope("ask-response", "chatbot:ping",
                                            [ok |-> TRUE, value |-> "pong"],
                                            asks[k].messageId)], 0)
        /\ UNCHANGED peerVars

\* A timer fires; not while a probe waits for the answer of a remote side
\* that is up, which answers within the timeout.
TimerFireInHandshake ==
    /\ \A k \in DOMAIN asks : ~Answerable(k)
    /\ TimerFire

NextHandshake ==
    \/ RemoteComesUp
    \/ RemoteAnswers
    \/ RemotePongs
    \/ TimerFireInHandshake
    \/ IntervalTick
    \/ RegisterTool
    \/ UnregisterTool
    \/ TellChatbot
    \/ Subscribe

\* The event loop runs the timers and the interval, and the remote side
\* that is up does answer.
SpecHandshake ==
    /\ Init
    /\ [][NextHandshake]_vars
    /\ WF_vars(TimerFireInHandshake)
    /\ WF_vars(IntervalTick)
    /\ WF_vars(RemotePongs)

\* --------------------------------------- tells and asks sent by the chatbot
\* The dispatch of inbound broadcasts and requests, with the website
\* subscribing and unsubscribing in between.

\* The events of the tells the chatbot may send: the two the adapter has
\* declared and one it has not.
InboundTellEvents == TellEvents \cup {"website:undeclared"}

\* A 'message' event carrying a tell, as tellChatbot on the sending side
\* builds it.  throwAt: the subscriber that throws (0: none).
RecvTell ==
    \E e \in InboundTellEvents, p \in Payloads :
        \E throwAt \in 0..(IF e \in DOMAIN listeners
                           THEN Len(listeners[e].currentListeners) ELSE 0) :
            /\ Told < MaxTold
            /\ HandleMessage([source |-> "iframe",
                              data |-> Envelope("tell", e, p, Undefined)], throwAt)
            /\ UNCHANGED peerVars

\* A 'message' event carrying a call of a tool: registered or not, with
\* arguments its schema accepts or not, its execution returning or
\* suspending.
RecvToolCall ==
    \E n \in {"get_user", "no_tool"}, a \in {"valid", "invalid"}, mid \in InboundIds,
       choice \in {"returns", "suspends"} :
        /\ Told < MaxTold
        /\ HandleMessage([source |-> "iframe",
                          data |-> Envelope("ask", "website:tool-call",
                                            [name |-> n, args |-> a], mid)], choice)
        /\ UNCHANGED peerVars

NextTells ==
    \/ RecvTell
    \/ Subscribe
    \/ Unsubscribe

SpecTells == Connected /\ [][NextTells]_vars

NextDispatch ==
    \/ RecvTell
    \/ RecvToolCall
    \/ HandlerComplete
    \/ Subscribe

SpecDispatch == Connected /\ [][NextDispatch]_vars

\* ------------------------------------------------ messages of any origin
\* The 'message' events the website's window may see: from the iframe's
\* window, from another window, or with no source window (null: a window
\* that is gone, or an event built by a script); with the protocol's
\* marker, with another one, or without any (data that is not an object
\* included).

Sources == {"iframe", "other", "null"}
Markers == {PROTOCOL_PREFIX, "other-protocol", Undefined}

\* An envelope whose type, event and correlation id are those of the
\* protocol: a tell of event e, an ask, or the response to ask n.
WireMessage(type, e, n) ==
    IF type = "tell" THEN Envelope("tell", e, "p1", Undefined)
    ELSE IF type = "ask"
    THEN Envelope("ask", "website:ping", [name |-> Undefined, args |-> Undefined],
                  "chatbot-ask-1")
    ELSE Envelope("ask-response", "chatbot:register-tool",
                  [ok |-> TRUE, value |-> "{success:false}"], MessageId(n))

RecvAny ==
    \E type \in {"tell", "ask", "ask-response"}, e \in TellEvents, n \in 1..MaxAsks,
       src \in Sources, marker \in Markers :
        /\ Told < MaxTold
        /\ Len(inAsks) < MaxInbound
        /\ HandleMessage([source |-> src,
                          data |-> [WireMessage(type, e, n) EXCEPT !.prefix = marker]],
                         IF type = "ask" THEN "returns" ELSE 0)
        /\ UNCHANGED peerVars

NextFilter ==
    \/ RecvAny
    \/ RegisterTool
    \/ Subscribe
    \/ IframeRemoved

SpecFilter == Connected /\ [][NextFilter]_vars

\* ======================================================== adapter properties

\* The correlation id and the kind of the message event a step dispatched.
LastMessageId(l) == IF l.outcome = "dispatched" THEN l.event.data.messageId ELSE l.messageId
LastType(l) == IF l.outcome = "dispatched" THEN l.event.data.type ELSE l.type

\* The step handled an ask-response envelope carrying correlation id mid.
ResponseStep(mid) ==
    /\ last'.op = "handleMessage"
    /\ LastType(last') = "ask-response"
    /\ LastMessageId(last') = mid

\* The state follows the handling of an ask-response carrying id mid that
\* matched no pending entry.
DroppedResponse(mid) ==
    /\ last.op = "handleMessage"
    /\ last.outcome = "dropped"
    /\ last.type = "ask-response"
    /\ last.messageId = mid

Pending(k) == asks[k].messageId \in DOMAIN pendingAskResponses
TimedOut(k) == asks[k].state = "rejected" /\ asks[k].value = TimeoutMessage(asks[k].event)

\* C1: the promise of every askChatbot call is settled at most once: resolve
\* or reject is called at most once for it, a settled call has no pending
\* entry, and no later response or timer changes a settled call.
C1_SettledAtMostOnce ==
    /\ [](\A k \in DOMAIN asks :
            /\ asks[k].settles <= 1
            /\ asks[k].state # "pending" => (asks[k].settles = 1 /\ ~Pending(k)))
    /\ [][\A k \in DOMAIN asks : asks[k].state # "pending" => asks'[k] = asks[k]]_vars

\* C1's case: a call was resolved by its response, its timer has fired since,
\* and a repeated response with its id has just been handled.
C1_Witness ==
    \E k \in DOMAIN asks :
        /\ asks[k].state = "resolved"
        /\ k \notin timers
        /\ DroppedResponse(asks[k].messageId)

\* C2: every outbound ask ends settled.  Only a matching response and the
\* call's own timer settle a promise, so a call whose timer has fired must
\* be settled, with its pending entry gone.
C2_SettledWhenTimerHasFired ==
    \A k \in DOMAIN asks :
        k \notin timers => (asks[k].state # "pending" /\ ~Pending(k))

\* C3: a timer that fires for a pending call rejects its promise with the
\* timeout error naming the event and removes the entry; an ask-response
\* with the id of a timed-out call changes nothing.
C3_TimeoutThenDrop ==
    [][\A k \in DOMAIN asks :
        /\ (k \in timers /\ k \notin timers' /\ Pending(k))
              => /\ asks'[k] = [asks[k] EXCEPT !.state = "rejected",
                                               !.value = TimeoutMessage(asks[k].event),
                                               !.settles = 1]
                 /\ asks[k].messageId \notin DOMAIN pendingAskResponses'
        /\ (TimedOut(k) /\ ResponseStep(asks[k].messageId))
              => UNCHANGED <<registryVars, adapterVars>>]_vars

\* C3's case: a call timed out and a response with its id arrived afterwards.
C3_Witness ==
    \E k \in DOMAIN asks : TimedOut(k) /\ DroppedResponse(asks[k].messageId)

\* C4: the correlation ids of one adapter never collide: the counter only
\* grows, every askChatbot call takes the next counter value, which no
\* pending entry holds, and no id is issued twice.
C4_IdsNeverCollide ==
    /\ [](\A i, j \in DOMAIN asks : i # j => asks[i].messageId # asks[j].messageId)
    /\ [][/\ messageIdCounter' >= messageIdCounter
          /\ Len(asks') > Len(asks)
               => /\ messageIdCounter' > messageIdCounter
                  /\ asks'[Len(asks')].messageId = MessageId(messageIdCounter')
                  /\ asks'[Len(asks')].messageId \notin DOMAIN pendingAskResponses]_vars

\* C4's case: two calls on the same event name are pending at once.
C4_Witness ==
    \E i, j \in DOMAIN asks :
        /\ i # j
        /\ asks[i].event = asks[j].event
        /\ Pending(i) /\ Pending(j)
        /\ pendingAskResponses[asks[i].messageId] = i
        /\ pendingAskResponses[asks[j].messageId] = j

\* C5: a response with correlation id X that matches a pending entry settles
\* the call issued with X, resolved with the value when its flag is true and
\* rejected with the stringified value when it is false, and leaves every
\* other call and its pending entry as they were.
C5_ResponseSettlesItsOwnAsk ==
    [][(last'.op = "handleMessage" /\ last'.outcome = "dispatched"
            /\ last'.event.data.type = "ask-response")
        => LET m == last'.event.data
               k == pendingAskResponses[m.messageId]
           IN  /\ asks[k].messageId = m.messageId
               /\ asks[k].state = "pending"
               /\ asks'[k].state = IF m.payload.ok THEN "resolved" ELSE "rejected"
               /\ asks'[k].value = IF m.payload.ok THEN m.payload.value
                                   ELSE JsString(m.payload.value)
               /\ m.messageId \notin DOMAIN pendingAskResponses'
               /\ \A j \in DOMAIN asks \ {k} :
                     /\ asks'[j] = asks[j]
                     /\ Pending(j) => /\ asks[j].messageId \in DOMAIN pendingAskResponses'
                                      /\ pendingAskResponses'[asks[j].messageId] = j]_vars

\* C5's case: two calls on the same event are pending and the response of
\* the later one has arrived first, with a false flag and an object value.
C5_Witness ==
    \E i, j \in DOMAIN asks :
        /\ i < j
        /\ asks[i].event = asks[j].event
        /\ Pending(i) /\ asks[i].state = "pending"
        /\ asks[j].state = "rejected" /\ asks[j].value = "[object Object]"
        /\ last.op = "handleMessage" /\ last.outcome = "dispatched"
        /\ last.event.data.messageId = asks[j].messageId

\* The registerTool call that awaits ask k completes in this step.
RegistrationCompletes(k) ==
    /\ asks[k].frame.op = "registerTool"
    /\ asks[k].state = "pending"
    /\ asks'[k].state # "pending"

\* The remote has reported success to the call that awaits ask k.
ReportedSuccess(k) == asks'[k].state = "resolved" /\ Success(asks'[k].value)

\* A call on the tool name other than k has completed with a removal of the
\* entry: unregisterTool answered with success, or registerTool answered
\* without success.
RemovedByOther(k, name) ==
    \E j \in DOMAIN asks :
        /\ j # k
        /\ asks[j].frame.name = name
        /\ asks[j].state = "resolved"
        /\ \/ asks[j].frame.op = "unregisterTool" /\ Success(asks[j].value)
           \/ asks[j].frame.op = "registerTool" /\ ~Success(asks[j].value)

\* C15, the claim as stated: when the remote answers a registration with
\* { success: true } the tool set contains the name after the call, when it
\* answers { success: false } the set does not contain it.
C15_SuccessKeepsFailureRemoves ==
    [][\A k \in DOMAIN asks :
        (RegistrationCompletes(k) /\ asks'[k].state = "resolved") =>
            (asks[k].frame.name \in DOMAIN registeredTools' <=> ReportedSuccess(k))]_vars

\* C15, amended: when the remote answers a registration with
\* { success: true } the call leaves the tool set as it is, and the set
\* contains the name unless another call on the same name has removed it
\* (unregisterTool answered with success, or another registerTool answered
\* without success); when the remote answers { success: false } the entry
\* is removed and the set does not contain the name after the call.
C15_SuccessLeavesFailureRemoves ==
    [][\A k \in DOMAIN asks :
        (RegistrationCompletes(k) /\ asks'[k].state = "resolved") =>
            IF ReportedSuccess(k)
            THEN /\ registeredTools' = registeredTools
                 /\ \/ asks[k].frame.name \in DOMAIN registeredTools'
                    \/ RemovedByOther(k, asks[k].frame.name)
            ELSE /\ asks[k].frame.name \notin DOMAIN registeredTools'
                 /\ \A n \in DOMAIN registeredTools \ {asks[k].frame.name} :
                       /\ n \in DOMAIN registeredTools'
                       /\ registeredTools'[n] = registeredTools[n]]_vars

\* C15's case: one registration was answered { success: true } and the set
\* holds its tool, and a registration has just been answered
\* { success: false }.
C15_Witness ==
    \E i, k \in DOMAIN asks :
        /\ asks[i].frame.op = "registerTool" /\ asks[k].frame.op = "registerTool"
        /\ asks[i].state = "resolved" /\ asks[i].value = "{success:true}"
        /\ asks[k].state = "resolved" /\ asks[k].value = "{success:false}"
        /\ last.op = "handleMessage" /\ last.outcome = "dispatched"
        /\ last.event.data.messageId \in {asks[i].messageId, asks[k].messageId}

\* C16: once a registerTool call has completed without the remote reporting
\* success (the response reports failure, the ask is rejected by a failure
\* response, or it times out), the tool's name is not in the tool set.
C16_FailedRegistrationNotActive ==
    [][\A k \in DOMAIN asks :
        (RegistrationCompletes(k) /\ ~ReportedSuccess(k)) =>
            asks[k].frame.name \notin DOMAIN registeredTools']_vars

\* The async frame i of the ask branch ends in this step: it was dispatched
\* and ran through, or it was suspended and has resumed.
FrameEnds(i) ==
    /\ inAsks'[i].state # "suspended"
    /\ i \in DOMAIN inAsks => inAsks[i].state = "suspended"

\* An ask-response envelope that echoes the event and the correlation id of
\* the inbound ask of frame f.
ResponseTo(e, f) ==
    /\ e.type = "ask-response"
    /\ e.prefix = PROTOCOL_PREFIX
    /\ e.event = f.event
    /\ e.messageId = f.messageId
    /\ e.payload.ok \in BOOLEAN

\* C6, the claim as stated: every inbound ask whose handling has ended, in
\* whichever way, has had a response envelope with its correlation id
\* posted.
C6_ResponseAlwaysPosted ==
    \A i \in DOMAIN inAsks :
        inAsks[i].state # "suspended" =>
            \E j \in DOMAIN posted : ResponseTo(posted[j], inAsks[i])

\* C6, amended: when the handling of an accepted inbound ask ends (no
\* responder, a responder that fails at once or after suspending, or one
\* that succeeds), exactly one ask-response envelope echoing its event and
\* correlation id is posted if the iframe's content window is available at
\* that moment, and nothing is posted if it is not.
C6_ResponsePostedWhileWindowAvailable ==
    [][\A i \in DOMAIN inAsks' :
          FrameEnds(i) =>
              IF contentWindow = "null"
              THEN posted' = posted
              ELSE /\ Len(posted') = Len(posted) + 1
                   /\ SubSeq(posted', 1, Len(posted)) = posted
                   /\ ResponseTo(posted'[Len(posted')], inAsks'[i])]_vars

\* C6's case: an ask without responder was answered with a false flag, and
\* the responder of a tool call has failed after suspending and its
\* response was posted.
C6_Witness ==
    /\ last.op = "handlerComplete" /\ last.settle = "rejects"
    /\ \E j \in DOMAIN posted : ResponseTo(posted[j], inAsks[last.frame])
    /\ \E j \in DOMAIN posted :
          /\ posted[j].type = "ask-response"
          /\ posted[j].event = "website:unknown"
          /\ ~posted[j].payload.ok

\* C17: the responder of 'website:tool-call' never fails at protocol level.
\* Every response envelope posted for an inbound tool call has the flag ok
\* true; its value is { ok: false, value: 'Tool "<name>" not found' } when
\* the name is not in the tool set, { ok: false, ... } when the validation
\* of the arguments or the execution of the tool fails, and
\* { ok: true, value: result } when the tool has executed.
C17_ToolCallAnsweredWithResult ==
    [][\A i \in DOMAIN inAsks' :
        (FrameEnds(i) /\ inAsks'[i].event = "website:tool-call"
                      /\ Len(posted') > Len(posted)) =>
            LET e == posted'[Len(posted')]
            IN  /\ e.type = "ask-response" /\ e.messageId = inAsks'[i].messageId
                /\ e.payload.ok = TRUE
                /\ IF last'.op = "handlerComplete"
                   THEN e.payload.value = IF last'.settle = "resolves"
                                          THEN "{ok:true,value:result}"
                                          ELSE "{ok:false,value:Error: execute failed}"
                   ELSE LET p == last'.event.data.payload
                        IN  IF p.name \notin DOMAIN registeredTools
                            THEN e.payload.value =
                                   "{ok:false,value:Tool \"" \o p.name \o "\" not found}"
                            ELSE IF p.args = "invalid"
                            THEN e.payload.value = "{ok:false,value:ZodError: invalid args}"
                            ELSE e.payload.value \in
                                   {"{ok:true,value:result}",
                                    "{ok:false,value:Error: execute failed}"}]_vars

\* C17's case: a call of an unknown tool was answered 'not found', and a
\* call of a registered tool that had suspended was answered with its
\* result.
C17_Witness ==
    /\ last.op = "handlerComplete" /\ last.settle = "resolves"
    /\ posted[Len(posted)].type = "ask-response"
    /\ posted[Len(posted)].payload = [ok |-> TRUE, value |-> "{ok:true,value:result}"]
    /\ \E j \in DOMAIN posted :
          /\ posted[j].type = "ask-response"
          /\ posted[j].payload =
                [ok |-> TRUE, value |-> "{ok:false,value:Tool \"no_tool\" not found}"]

\* Ask k is a liveness probe, and it has been answered with 'pong'.
Probe(k) == asks[k].event = "chatbot:ping"
Ponged(k) == Probe(k) /\ asks[k].state = "resolved" /\ asks[k].value = "pong"

\* C18: the handshake sends the first probe at once; while no probe has
\* succeeded and none is in flight, the interval that re-issues the probe
\* is active, and each tick posts a new probe; a probe that times out, is
\* answered with a failure or with a value other than 'pong' does not
\* signal readiness; readiness is signalled only in a step in which a probe
\* is answered with 'pong', and the interval is off from then on; and once
\* the remote side answers the probes with 'pong', readiness is eventually
\* signalled.
C18_HandshakePollsUntilPong ==
    /\ [](/\ Probe(1)
          /\ posted[1] = Envelope("ask", "chatbot:ping", Undefined, MessageId(1))
          /\ ready => (\E k \in DOMAIN asks : Ponged(k)) /\ ~interval
          /\ (~ready /\ \A k \in DOMAIN asks : Probe(k) => asks[k].state # "pending")
                => interval)
    /\ [][/\ \A k \in DOMAIN asks :
               (Probe(k) /\ asks[k].state = "pending" /\ asks'[k].state # "pending") =>
                   (ready' <=> asks'[k].state = "resolved" /\ asks'[k].value = "pong")
          /\ last'.op = "ping" =>
               /\ interval /\ ~ready
               /\ posted' = Append(posted, Envelope("ask", "chatbot:ping", Undefined,
                                                    MessageId(messageIdCounter + 1)))
               /\ Len(asks') = Len(asks) + 1
               /\ asks'[Len(asks')].timeout = PingTimeout]_vars
    /\ ((remoteUpSince >= 0) ~> ready)

\* C18's case: readiness was signalled by the 'pong' of a remote side that
\* had come up, after a probe that timed out and a probe that was answered
\* with another value.
C18_Witness ==
    /\ ready /\ remoteUpSince >= 0
    /\ \E i, j \in DOMAIN asks :
          /\ Probe(i) /\ TimedOut(i)
          /\ Probe(j) /\ asks[j].state = "resolved" /\ asks[j].value # "pong"

\* An envelope of kind ask or tell for an event other than the probe.
PublicEnvelope(e) == e.type \in {"ask", "tell"} /\ e.event # "chatbot:ping"

\* C19: no envelope of kind ask or tell for an event other than the
\* liveness probe has been posted, and no subscription has been made,
\* unless a probe has been answered with 'pong'.
C19_PublicApiGatedByHandshake ==
    (\/ \E j \in DOMAIN posted : PublicEnvelope(posted[j])
     \/ \E e \in DOMAIN listeners : listeners[e].currentListeners # <<>>)
        => \E k \in DOMAIN asks : Ponged(k)

\* C19's case: after the handshake a tool registration and a tell have been
\* posted and a subscription has been made.
C19_Witness ==
    /\ \E j \in DOMAIN posted :
          posted[j].type = "ask" /\ posted[j].event = "chatbot:register-tool"
    /\ \E j \in DOMAIN posted : posted[j].type = "tell"
    /\ \E e \in DOMAIN listeners : listeners[e].currentListeners # <<>>

\* C20: a message that does not come from the iframe's window, or whose
\* data does not carry the protocol's marker, is ignored: the registry, the
\* records of the callbacks, the pending asks, the tool set and the posted
\* envelopes are as before.
C20_ForeignMessageIgnored ==
    [][(/\ last'.op = "handleMessage"
        /\ \/ last'.outcome = "ignored"
           \/ /\ last'.outcome = "dispatched"
              /\ \/ last'.event.source # "iframe"
                 \/ last'.event.data.prefix # PROTOCOL_PREFIX)
          => UNCHANGED <<registryVars, adapterVars>>]_vars

\* 'No handler for <event>', as the response of the peer carries it and as
\* the rejection of the asker words it.
NoHandlerMessage(event) == "Error: No handler for " \o event

\* The response envelopes for ask k that have reached the asker.
Delivered(k) ==
    {j \in siteHandled : peerPosted[j].messageId = asks[k].messageId}

\* C7, the claim as stated: an ask sent to a peer without responder for the
\* event is settled by the timeout only, it rejects with the timeout error.
C7_RejectsWithTimeoutOnly ==
    \A k \in DOMAIN asks : asks[k].state # "pending" => TimedOut(k)

\* C7, amended: the peer answers every ask it dispatches with an
\* ask-response whose flag is false and whose value is 'Error: No handler
\* for <event>'.  The asker's promise is never resolved; it rejects with
\* that error when the response reaches the asker before the timer fires,
\* and with the timeout error when the timer fires first.
C7_RejectsWithTimeoutOrNoHandler ==
    /\ Len(peerPosted) = Cardinality(peerHandled)
    /\ \A j \in DOMAIN peerPosted :
          /\ peerPosted[j].type = "ask-response"
          /\ peerPosted[j].payload = [ok |-> FALSE,
                                      value |-> NoHandlerMessage(peerPosted[j].event)]
    /\ \A k \in DOMAIN asks :
          /\ asks[k].state \in {"pending", "rejected"}
          /\ asks[k].state = "pending" => k \in timers /\ Delivered(k) = {}
          /\ asks[k].state = "rejected" =>
                \/ TimedOut(k) /\ k \notin timers
                \/ asks[k].value = NoHandlerMessage(asks[k].event) /\ Delivered(k) # {}

\* C7's case: one ask was rejected by the peer's response before its timer
\* fired, another by its timer before the response arrived.
C7_Witness ==
    \E i, k \in DOMAIN asks :
        /\ asks[i].state = "rejected"
        /\ asks[i].value = NoHandlerMessage(asks[i].event)
        /\ i \notin timers
        /\ TimedOut(k)
        /\ Delivered(k) # {}

\* ======================================================= registry properties

\* The step is a call on(e, ...) that found the event declared.
OnStep(e) == last'.op = "on" /\ last'.event = e /\ e \in DOMAIN listeners

\* The step is a call tell(e, ...) that found the event declared.
TellStep(e) == last'.op = "tell" /\ last'.event = e /\ e \in DOMAIN listeners

\* C8: payloads told while a declared channel has no subscriber are appended
\* to its buffer in order; a subscriber registered with on receives exactly
\* the buffered payloads, in order, each once, and the buffer is empty after
\* that call, so that no later subscriber receives any of them.
C8_BufferedReplayedOnce ==
    [][\A e \in TellEvents :
        /\ (TellStep(e) /\ Len(listeners[e].currentListeners) = 0)
              => listeners'[e].queue = Append(listeners[e].queue, last'.payload)
        /\ OnStep(e)
              => /\ calls'[id] = listeners[e].queue
                 /\ listeners'[e].queue = <<>>]_vars

\* C9: a tell channel with at least one subscriber has an empty buffer.
C9_NoBufferWithSubscribers ==
    \A e \in DOMAIN listeners :
        Len(listeners[e].currentListeners) > 0 => listeners[e].queue = <<>>

\* C10: a tell on a channel with subscribers invokes every subscriber once
\* with the payload, whether or not a subscriber before it failed.
C10_EverySubscriberInvoked ==
    [][\A e \in TellEvents :
        (TellStep(e) /\ Len(listeners[e].currentListeners) > 0)
            => \A i \in 1..Len(listeners[e].currentListeners) :
                  LET l == listeners[e].currentListeners[i]
                  IN  calls'[l] = Append(calls[l], last'.payload)]_vars

\* The step is a call off(e, ...).
OffStep(e) == last'.op = "off" /\ last'.event = e

\* The positions of the sequence that hold x.
PositionsOf(seq, x) == {i \in DOMAIN seq : seq[i] = x}

\* C11: off(name, id) on a declared channel returns false and changes
\* nothing when id is not the id of a current subscriber of that channel
\* (never issued for it, or removed already); with the id of a current
\* subscriber it returns true and removes that one subscriber, the others
\* keep their order, the buffer and the other channels stay as they are;
\* on an undeclared name it returns false and changes nothing.
C11_OffRemovesExactlyThatSubscriber ==
    [][\A e \in TellEvents :
        OffStep(e) =>
            /\ handlers' = handlers /\ id' = id /\ calls' = calls
            /\ IF e \notin DOMAIN listeners
               THEN last'.ret = FALSE /\ listeners' = listeners
               ELSE LET cur == listeners[e].currentListeners
                        at == PositionsOf(cur, last'.id)
                    IN  IF at = {}
                        THEN last'.ret = FALSE /\ listeners' = listeners
                        ELSE /\ last'.ret = TRUE
                             /\ \E i \in at :
                                   listeners' =
                                       [listeners EXCEPT ![e].currentListeners =
                                           SubSeq(cur, 1, i - 1) \o SubSeq(cur, i + 1, Len(cur))]]_vars

\* C11's case: off has removed the first of two subscribers of a channel,
\* the second one is still subscribed.
C11_Witness ==
    /\ last.op = "off" /\ last.ret = TRUE
    /\ last.event \in DOMAIN listeners
    /\ Len(listeners[last.event].currentListeners) = 1
    /\ listeners[last.event].currentListeners[1] > last.id

\* The step is a call registerUniqueAskHandler(e, ...), unregisterAskHandler(e, ...)
\* or ask(e, ...) of the registry.
RegisterStep(e) == last'.op = "registerUniqueAskHandler" /\ last'.event = e
UnregisterStep(e) == last'.op = "unregisterAskHandler" /\ last'.event = e
AskStep(e) == last'.op = "ask" /\ last'.event = e

\* The handlers whose record of invocations the step has changed.
InvokedIn(h) == h \notin DOMAIN calls \/ calls'[h] # calls[h]

\* C12: registerUniqueAskHandler on a name whose responder is protected
\* (preventOverwrite) fails and leaves the responder installed; on any other
\* name it installs the new handler under a fresh identity and reports
\* whether it replaced one; an ask on a name invokes the handler installed
\* at that moment, the newest one, and no other.
C12_ProtectedResponderStays ==
    [][\A e \in AskEvents :
        /\ RegisterStep(e) =>
              IF e \in DOMAIN handlers /\ handlers[e].preventOverwrite
              THEN last'.threw /\ handlers' = handlers /\ id' = id
              ELSE /\ ~last'.threw
                   /\ last'.ret = [id |-> id, existing |-> e \in DOMAIN handlers]
                   /\ DOMAIN handlers' = DOMAIN handlers \cup {e}
                   /\ handlers'[e].id = id /\ handlers'[e].listener = last'.listener
                   /\ \A o \in DOMAIN handlers \ {e} : handlers'[o] = handlers[o]
                   /\ \A o \in DOMAIN handlers : handlers[o].id < id
        /\ (AskStep(e) /\ e \in DOMAIN handlers) =>
              /\ \A h \in DOMAIN calls' : InvokedIn(h) <=> h = handlers[e].id
              /\ promises'[Len(promises')].handler = handlers[e].id
              /\ promises'[Len(promises')].listener = handlers[e].listener]_vars

\* C12's case: a handler was installed on a name after another one, and an
\* ask on that name has invoked the newer one.
C12_Witness ==
    /\ last.op = "ask" /\ ~last.threw
    /\ promises[Len(promises)].handler = handlers[last.event].id
    /\ \E i \in DOMAIN promises :
          /\ promises[i].event = last.event
          /\ promises[i].handler < handlers[last.event].id

\* C13: unregisterAskHandler(name, id) removes the responder of name and
\* returns true when the installed responder has identity id; otherwise
\* (no responder, or id is that of a responder replaced since) it returns
\* false and the handlers stay as they are.
C13_UnregisterOnlyMatchingId ==
    [][\A e \in AskEvents :
        UnregisterStep(e) =>
            IF e \in DOMAIN handlers /\ handlers[e].id = last'.id
            THEN /\ last'.ret = TRUE
                 /\ DOMAIN handlers' = DOMAIN handlers \ {e}
                 /\ \A o \in DOMAIN handlers' : handlers'[o] = handlers[o]
            ELSE last'.ret = FALSE /\ handlers' = handlers]_vars

\* C13's case: unregisterAskHandler was called with the id of a responder
\* that had answered on the name and has been replaced since; the newer
\* responder is still installed.
C13_Witness ==
    /\ last.op = "unregisterAskHandler" /\ last.ret = FALSE
    /\ last.event \in DOMAIN handlers
    /\ handlers[last.event].id > last.id
    /\ \E i \in DOMAIN promises :
          promises[i].event = last.event /\ promises[i].handler = last.id

\* C14: ask on a name without responder throws 'No handler for <name>' at
\* once: no handler is invoked, no promise is made, no timer is started.
\* With a responder it invokes that handler once and returns a promise that
\* is fulfilled with the handler's result or rejected with its failure,
\* at once or when the promise the handler returned settles; settling
\* invokes no handler again.
C14_AskInvokesOnceOrFailsAtOnce ==
    [][/\ \A e \in AskEvents :
            AskStep(e) =>
                /\ timers' = timers
                /\ handlers' = handlers
                /\ IF e \notin DOMAIN handlers
                   THEN /\ last'.threw /\ last'.error = NoHandlerMessage(e)
                        /\ calls' = calls /\ promises' = promises
                   ELSE LET h == handlers[e]
                            before == IF h.id \in DOMAIN calls THEN calls[h.id] ELSE <<>>
                        IN  /\ ~last'.threw
                            /\ calls'[h.id] = Append(before, last'.payload)
                            /\ \A o \in DOMAIN calls : o # h.id => calls'[o] = calls[o]
                            /\ promises' = Append(promises,
                                  [event |-> e, handler |-> h.id, listener |-> h.listener,
                                   state |-> CASE last'.behaviour = "returns" -> "fulfilled"
                                               [] last'.behaviour = "throws" -> "rejected"
                                               [] OTHER -> "pending",
                                   value |-> CASE last'.behaviour = "returns" -> ResultOf(h.listener)
                                               [] last'.behaviour = "throws" -> ErrorOf(h.listener)
                                               [] OTHER -> Undefined])
       /\ last'.op = "handlerSettles" =>
            LET i == last'.promise
            IN  /\ calls' = calls
                /\ promises[i].state = "pending"
                /\ \/ promises'[i].state = "fulfilled"
                      /\ promises'[i].value = ResultOf(promises[i].listener)
                   \/ promises'[i].state = "rejected"
                      /\ promises'[i].value = ErrorOf(promises[i].listener)
                /\ \A j \in DOMAIN promises : j # i => promises'[j] = promises[j]]_vars

\* C14's case: an ask without responder has thrown after an ask whose
\* handler suspended had its promise rejected.
C14_Witness ==
    /\ last.op = "ask" /\ last.threw
    /\ \E i \in DOMAIN promises :
          /\ promises[i].state = "rejected"
          /\ promises[i].value = ErrorOf(promises[i].listener)
          /\ Len(calls[promises[i].handler]) = 1

\* ====================================================== dispatch properties

\* The step has dispatched an inbound tell of event e (accepted by the
\* source and format checks).
InboundTell(e) ==
    /\ last'.op = "handleMessage"
    /\ last'.outcome = "dispatched"
    /\ last'.event.data.type = "tell"
    /\ last'.event.data.event = e

\* The step is a subscription to event e through the public API.
SubscribeStep(e) == last'.op = "subscribe" /\ last'.event = e

\* C21: the payload P of an inbound tell on a declared event reaches the
\* subscribers unaltered.  With no subscriber P itself is appended to the
\* buffer; with subscribers the first one is invoked with P and every
\* other one is invoked with P or not at all; a subscription is replayed
\* the buffered payloads as they were received, from the first one on
\* (all of them when the callback does not fail).
C21_PayloadUnaltered ==
    [][\A e \in TellEvents :
        /\ InboundTell(e) =>
              LET P == last'.event.data.payload
                  cur == listeners[e].currentListeners
              IN  IF cur = <<>>
                  THEN /\ listeners' = [listeners EXCEPT ![e].queue = Append(@, P)]
                       /\ calls' = calls
                  ELSE /\ listeners' = listeners
                       /\ calls'[cur[1]] = Append(calls[cur[1]], P)
                       /\ \A l \in DOMAIN calls :
                             calls'[l] = calls[l] \/ calls'[l] = Append(calls[l], P)
        /\ SubscribeStep(e) =>
              /\ \E n \in 0..Len(listeners[e].queue) :
                    calls'[id] = SubSeq(listeners[e].queue, 1, n)
              /\ ~last'.threw => calls'[id] = listeners[e].queue]_vars

\* C21's case: a subscription has just been replayed the buffered payload
\* 'p2', and another subscriber holds the payload 'p1' of another tell.
C21_Witness ==
    /\ last.op = "subscribe" /\ ~last.threw
    /\ calls[last.ret] = <<"p2">>
    /\ \E l \in DOMAIN calls :
          l # last.ret /\ l >= InitialRegistry.id /\ calls[l] = <<"p1">>

\* C22: after dispose() the pending map and the tool set are empty, no
\* inbound message invokes a subscriber, a responder or a tool, and no
\* envelope is posted any more, the responses of the inbound asks whose
\* handler was suspended at that moment included.
C22_DisposeReleasesEverything ==
    /\ [](~listening => pendingAskResponses = EmptyMap /\ registeredTools = EmptyMap)
    /\ [][~listening => (posted' = posted /\ calls' = calls
                          /\ Len(inAsks') = Len(inAsks))]_vars

\* C23: a response that arrives before the timer of its ask fires cancels
\* that timer and removes the pending entry: an armed timer exists only
\* for a call whose correlation id is still in the pending map.
C23_ArmedTimerOnlyForPending ==
    \A k \in timers : Pending(k)

\* The ask-response envelopes posted so far, and the frames whose response
\* was posted.
Responses == {j \in DOMAIN posted : posted[j].type = "ask-response"}
Answered == {i \in DOMAIN inAsks : inAsks[i].state = "posted"}

\* The payload of the response to the inbound ask whose frame ends in this
\* step: the result of its own handler.
OwnResult(f) ==
    IF f.event = "website:ping" THEN [ok |-> TRUE, value |-> "pong"]
    ELSE IF f.event # "website:tool-call"
    THEN [ok |-> FALSE, value |-> "Error: No handler for " \o f.event]
    ELSE IF last'.op = "handlerComplete"
    THEN [ok |-> TRUE, value |-> IF last'.settle = "resolves"
                                 THEN "{ok:true,value:result}"
                                 ELSE "{ok:false,value:Error: execute failed}"]
    ELSE LET p == last'.event.data.payload
         IN  [ok |-> TRUE,
              value |-> IF p.name \notin DOMAIN registeredTools
                        THEN "{ok:false,value:Tool \"" \o p.name \o "\" not found}"
                        ELSE IF p.args = "invalid"
                        THEN "{ok:false,value:ZodError: invalid args}"
                        ELSE posted'[Len(posted')].payload.value]

\* C24: with several inbound asks in progress and their handlers completing
\* in any order, at most one response is posted per inbound ask (as many
\* responses as asks answered, an ended ask never ends again, a step posts
\* at most one envelope); the response posted when an ask ends echoes the
\* correlation id and the event of that ask, its flag is true exactly when
\* the handler of that ask completed, and it carries that handler's result.
C24_OneResponsePerInboundAsk ==
    /\ [](Cardinality(Responses) = Cardinality(Answered))
    /\ [][/\ Len(posted') <= Len(posted) + 1
          /\ \A i \in DOMAIN inAsks :
                inAsks[i].state # "suspended" => inAsks'[i] = inAsks[i]
          /\ Len(posted') > Len(posted) =>
                /\ Cardinality({i \in DOMAIN inAsks' : FrameEnds(i)}) = 1
                /\ \A i \in DOMAIN inAsks' :
                      FrameEnds(i) =>
                          LET e == posted'[Len(posted')]
                          IN  /\ ResponseTo(e, inAsks'[i])
                              /\ e.payload = OwnResult(inAsks'[i])
                              /\ e.payload.ok <=> inAsks'[i].event \in DOMAIN handlers
                              /\ e.payload.value \in
                                    {"pong", "Error: No handler for website:unknown",
                                     "{ok:true,value:result}",
                                     "{ok:false,value:Error: execute failed}",
                                     "{ok:false,value:ZodError: invalid args}",
                                     "{ok:false,value:Tool \"no_tool\" not found}",
                                     "{ok:false,value:Tool \"get_user\" not found}"}]_vars

\* C24's case: two tool calls with different correlation ids were in
\* progress at once; the second was dispatched while the first was
\* suspended, and it was answered first, with another result.
C24_Witness ==
    /\ Len(inAsks) = 2
    /\ inAsks[1].messageId # inAsks[2].messageId
    /\ last.op = "handlerComplete" /\ last.frame = 1
    /\ \E j, k \in Responses :
          /\ j < k
          /\ ResponseTo(posted[j], inAsks[2])
          /\ ResponseTo(posted[k], inAsks[1])
          /\ posted[j].payload.value # posted[k].payload.value

\* The step has dispatched an inbound message of the given kind (accepted
\* by the source and format checks).
Dispatched(type) ==
    /\ last'.op = "handleMessage"
    /\ last'.outcome = "dispatched"
    /\ last'.event.data.type = type

\* What a callback had been invoked with before the step.
CallsBefore(h) == IF h \in DOMAIN calls THEN calls[h] ELSE <<>>

\* C25: handlers of one event name start in dispatch order.  The responder
\* of an inbound ask is invoked in the step that dispatches the ask, after
\* every invocation it has had, and the frame of the ask comes after the
\* frames of the asks dispatched before; a subscriber is invoked with an
\* inbound tell in the step that dispatches it, after the payloads it has
\* received; a tell that is buffered goes to the end of the buffer; no
\* other step (a handler that resumes, a subscription) invokes a callback
\* registered before or reorders its record.
C25_HandlersStartInDispatchOrder ==
    [][/\ Dispatched("ask") =>
             LET m == last'.event.data
             IN  /\ Len(inAsks') = Len(inAsks) + 1
                 /\ SubSeq(inAsks', 1, Len(inAsks)) = inAsks
                 /\ inAsks'[Len(inAsks')].messageId = m.messageId
                 /\ m.event \in DOMAIN handlers =>
                       calls'[handlers[m.event].id] =
                           Append(CallsBefore(handlers[m.event].id), m.payload)
                 /\ \A h \in DOMAIN calls :
                       h # handlers[m.event].id => calls'[h] = calls[h]
       /\ Dispatched("tell") =>
             LET m == last'.event.data
             IN  m.event \in DOMAIN listeners =>
                   LET cur == listeners[m.event].currentListeners
                   IN  /\ cur = <<>> =>
                             listeners'[m.event].queue =
                                 Append(listeners[m.event].queue, m.payload)
                       /\ cur # <<>> =>
                             calls'[cur[1]] = Append(calls[cur[1]], m.payload)
                       /\ \A l \in DOMAIN calls :
                             \/ calls'[l] = calls[l]
                             \/ calls'[l] = Append(calls[l], m.payload)
       /\ last'.op # "handleMessage" =>
             \A l \in DOMAIN calls : calls'[l] = calls[l]]_vars

\* C25's case: the responder of 'website:tool-call' was invoked for two
\* calls with different payloads, for the second one while the handler of
\* the first was still suspended.
C25_Witness ==
    /\ last.op = "handleMessage" /\ last.outcome = "dispatched"
    /\ last.event.data.type = "ask"
    /\ Len(inAsks) = 2 /\ inAsks[1].state = "suspended"
    /\ LET h == handlers["website:tool-call"].id
       IN  /\ h \in DOMAIN calls
           /\ Len(calls[h]) = 2
           /\ calls[h][1] # calls[h][2]
           /\ calls[h][2] = last.event.data.payload

\* C26: an inbound tell for an event that was never declared is reported
\* and nothing else: no channel is created, no subscriber is invoked, no
\* envelope is posted, the pending map, the tool set and everything else
\* the adapter and its registry hold stay as they are, the message
\* listener included, so that later messages are dispatched as before.
C26_UndeclaredTellChangesNothing ==
    /\ [](DOMAIN listeners = TellEvents /\ listening)
    /\ [][(Dispatched("tell") /\ last'.event.data.event \notin TellEvents)
            => UNCHANGED <<registryVars, adapterVars>>]_vars

\* C26's case: a tell for an undeclared event was dispatched while a
\* subscriber was registered and the handler of an inbound ask suspended.
C26_Witness ==
    /\ last.op = "handleMessage" /\ last.outcome = "dispatched"
    /\ last.event.data.type = "tell"
    /\ last.event.data.event = "website:undeclared"
    /\ \E e \in DOMAIN listeners : listeners[e].currentListeners # <<>>
    /\ \E i \in DOMAIN inAsks : inAsks[i].state = "suspended"

\* C27: on(name, cb) and tell(name, p) for a name that was never declared
\* throw and change nothing (no channel, no subscriber, no buffered payload,
\* no identity consumed, no callback invoked); declareTellEvent on a
\* declared name returns true and leaves the buffer and the subscribers of
\* the channel as they are, on a new name it returns false and creates an
\* empty channel.
C27_UndeclaredNameFailsAndChangesNothing ==
    [][\A e \in TellEvents :
        /\ (last'.op \in {"on", "tell"} /\ last'.event = e /\ e \notin DOMAIN listeners)
              => last'.threw /\ UNCHANGED registryVars
        /\ (last'.op = "declareTellEvent" /\ last'.event = e)
              => /\ last'.ret = (e \in DOMAIN listeners)
                 /\ listeners' = IF e \in DOMAIN listeners THEN listeners
                                 ELSE listeners @@ (e :> NewPool)
                 /\ UNCHANGED <<handlers, id, calls, promises>>]_vars

\* C27's case: declareTellEvent was called again on a channel that holds a
\* buffered payload and has returned true, while the other name has not
\* been declared.
C27_Witness ==
    /\ last.op = "declareTellEvent" /\ last.ret = TRUE
    /\ listeners[last.event].queue # <<>>
    /\ DOMAIN listeners # TellEvents

\* C28: on(name, cb) is atomic with respect to a failure of cb during the
\* replay: a call that fails either leaves the subscribers and the buffer
\* of the channel as they were, or has registered cb and emptied the
\* buffer; a call that succeeds has registered cb and emptied the buffer.
C28_SubscribeIsAtomic ==
    [][\A e \in TellEvents :
        OnStep(e) =>
            LET done == [listeners EXCEPT ![e] =
                            [queue |-> <<>>,
                             currentListeners |-> Append(listeners[e].currentListeners, id)]]
            IN  IF last'.threw
                THEN listeners' = listeners \/ listeners' = done
                ELSE listeners' = done]_vars

\* C29: buffering resumes when a channel loses its last subscriber.  When
\* off removes the last subscriber the buffer holds nothing that was
\* delivered before; from then on every tell is appended to the buffer, in
\* order; and the next subscriber registered with on receives exactly the
\* buffered payloads, in order, and leaves the buffer empty.
C29_BufferingResumesAfterLastOff ==
    [][\A e \in TellEvents :
        /\ (OffStep(e) /\ e \in DOMAIN listeners /\ last'.ret
                /\ listeners'[e].currentListeners = <<>>)
              => listeners'[e].queue = <<>>
        /\ (TellStep(e) /\ listeners[e].currentListeners = <<>>)
              => /\ ~last'.threw
                 /\ listeners'[e].queue = Append(listeners[e].queue, last'.payload)
        /\ (OnStep(e) /\ ~last'.threw /\ listeners[e].currentListeners = <<>>)
              => /\ calls'[id] = listeners[e].queue
                 /\ listeners'[e].queue = <<>>]_vars

\* C30: a registerTool call that the remote answers with { success: false }
\* leaves the tool set as it was before the call.  When a tool of that
\* name had been registered with success by an earlier call and no call
\* has removed it since, the name was in the set before the call, so it is
\* in the set, with that tool, after the call.
C30_FailedRegistrationPreservesSet ==
    [][\A k \in DOMAIN asks :
        (/\ RegistrationCompletes(k)
         /\ asks'[k].state = "resolved" /\ ~Success(asks'[k].value)
         /\ ~RemovedByOther(k, asks[k].frame.name)
         /\ \E i \in 1..(k - 1) :
               /\ asks[i].frame.op = "registerTool"
               /\ asks[i].frame.name = asks[k].frame.name
               /\ asks[i].state = "resolved" /\ Success(asks[i].value))
            => /\ asks[k].frame.name \in DOMAIN registeredTools'
               /\ registeredTools' = registeredTools]_vars

\* The liveness probes whose promise is not settled yet.
PendingProbes == {k \in DOMAIN asks : Probe(k) /\ asks[k].state = "pending"}

====
